---- MODULE Spec2Model ----
(***************************************************************************)
(* Model of palette_generator: the colour-space conversions of             *)
(* convert_colors.py and the theme derivation of make_theme.py (Themer).   *)
(*                                                                         *)
(* Numbers.  The program computes in binary floating point; the model      *)
(* computes in decimal fixed point on integers that stay below 2^31:       *)
(*   R, G, B        integers (as in the program)                           *)
(*   hue, sat, val  units of 10^-6                                         *)
(*   X, Y, Z        units of 10^-3   (Y = 100 is 100000)                   *)
(*   L, U, V        units of 10^-2   (L = 100 is 10000)                    *)
(*   p_mix          units of 10^-2   (0.25 is 25)                          *)
(* x ** 2.4 and its inverse are tabulated (Pow24, InvPow24); every other   *)
(* arithmetic step is carried out as the code writes it.                   *)
(***************************************************************************)
EXTENDS Integers, Sequences, FiniteSets, TLC

(***************************************************************************)
(* Fixed-point helpers                                                     *)
(***************************************************************************)
Abs(a) == IF a < 0 THEN -a ELSE a

Sign(a) == IF a < 0 THEN -1 ELSE 1

Min2(a, b) == IF a <= b THEN a ELSE b

Max2(a, b) == IF a >= b THEN a ELSE b

\* <<quotient, remainder>> of a*b by c for a, b >= 0 and 0 < c < 2^24,
\* computed on the base-64 digits of b so that the product a*b itself is
\* never formed.
RECURSIVE MulDivQR(_, _, _)
MulDivQR(a, b, c) ==
  IF b = 0 THEN <<0, 0>>
  ELSE LET h == MulDivQR(a, b \div 64, c)
           t == 64 * h[2] + (b % 64) * (a % c)
       IN  <<64 * h[1] + (b % 64) * (a \div c) + (t \div c), t % c>>

\* a*b/c rounded to the nearest integer (a, b, c signed, c # 0).
MulDiv(a, b, c) ==
  LET qr == MulDivQR(Abs(a), Abs(b), Abs(c))
  IN  Sign(a) * Sign(b) * Sign(c)
        * (qr[1] + (IF 2 * qr[2] >= Abs(c) THEN 1 ELSE 0))

\* floor(r^3 / 10^4) for 0 <= r <= 10000
CubeDiv4(r) ==
  LET r2 == r * r
  IN  (r2 \div 10000) * r + ((r2 % 10000) * r) \div 10000

\* x ** (1/3) for x = y/10^5 in (0,1], result in units of 10^-4: the largest
\* r in lo..hi with r^3 / 10^12 <= y / 10^5.
RECURSIVE CubeRoot(_, _, _)
CubeRoot(y, lo, hi) ==
  IF lo >= hi THEN lo
  ELSE LET mid == (lo + hi + 1) \div 2
       IN  IF CubeDiv4(mid) \div 1000 <= y
           THEN CubeRoot(y, mid, hi)
           ELSE CubeRoot(y, lo, mid - 1)

\* ((c/255 + 0.055) / 1.055) ** 2.4 * 100 for channel c = 0..255, at index
\* c + 1, in units of 10^-3  (convert_colors.py line 88).
Pow24 ==
  << 0, 30, 61, 91, 121, 152, 182, 212, 243, 273, 304, 335, 368, 402, 439,
     478, 518, 561, 605, 651, 700, 750, 802, 857, 913, 972, 1033, 1096, 1161,
     1229, 1298, 1370, 1444, 1521, 1600, 1681, 1764, 1850, 1938, 2029, 2122,
     2217, 2315, 2416, 2519, 2624, 2732, 2843, 2956, 3071, 3190, 3310, 3434,
     3560, 3689, 3820, 3955, 4092, 4231, 4374, 4519, 4667, 4817, 4971, 5127,
     5286, 5448, 5613, 5781, 5951, 6125, 6301, 6480, 6663, 6848, 7036, 7227,
     7421, 7619, 7819, 8022, 8228, 8438, 8650, 8866, 9084, 9306, 9531, 9759,
     9990, 10224, 10462, 10702, 10946, 11193, 11444, 11697, 11954, 12214,
     12477, 12744, 13014, 13287, 13563, 13843, 14126, 14413, 14703, 14996,
     15293, 15593, 15896, 16203, 16513, 16827, 17144, 17465, 17789, 18116,
     18447, 18782, 19120, 19462, 19807, 20156, 20508, 20864, 21223, 21586,
     21953, 22323, 22697, 23074, 23455, 23840, 24228, 24620, 25016, 25415,
     25818, 26225, 26636, 27050, 27468, 27889, 28315, 28744, 29177, 29614,
     30054, 30499, 30947, 31399, 31855, 32314, 32778, 33245, 33716, 34191,
     34670, 35153, 35640, 36131, 36625, 37124, 37626, 38133, 38643, 39157,
     39676, 40198, 40724, 41254, 41789, 42327, 42869, 43415, 43966, 44520,
     45079, 45641, 46208, 46778, 47353, 47932, 48515, 49102, 49693, 50289,
     50888, 51492, 52100, 52712, 53328, 53948, 54572, 55201, 55834, 56471,
     57112, 57758, 58408, 59062, 59720, 60383, 61050, 61721, 62396, 63076,
     63760, 64448, 65141, 65837, 66539, 67244, 67954, 68669, 69387, 70110,
     70838, 71569, 72306, 73046, 73791, 74540, 75294, 76052, 76815, 77582,
     78354, 79130, 79910, 80695, 81485, 82279, 83077, 83880, 84687, 85499,
     86316, 87137, 87962, 88792, 89627, 90466, 91310, 92158, 93011, 93869,
     94731, 95597, 96469, 97345, 98225, 99110, 100000 >>

\* InvPow24[k] is the least var (units of 10^-5, var > 0.0031308) at which
\* round((1.055 * var ** (1/2.4) - 0.055) * 255) reaches k
\* (convert_colors.py line 111); tabulated up to k = 320, var = 1.67.
InvPow24 ==
  << 314, 314, 314, 314, 314, 314, 314, 314, 314, 314, 319, 351, 385, 421,
     459, 498, 540, 583, 628, 676, 725, 776, 830, 885, 943, 1003, 1065, 1129,
     1195, 1264, 1334, 1408, 1483, 1560, 1640, 1723, 1807, 1894, 1984, 2076,
     2170, 2267, 2366, 2467, 2572, 2678, 2788, 2899, 3014, 3131, 3250, 3372,
     3497, 3625, 3755, 3888, 4023, 4161, 4302, 4446, 4593, 4742, 4894, 5049,
     5207, 5367, 5531, 5697, 5866, 6038, 6213, 6391, 6572, 6755, 6942, 7132,
     7324, 7520, 7719, 7920, 8125, 8333, 8544, 8758, 8975, 9195, 9418, 9645,
     9874, 10107, 10343, 10582, 10824, 11070, 11318, 11570, 11826, 12084,
     12346, 12611, 12879, 13150, 13425, 13703, 13985, 14270, 14558, 14849,
     15144, 15443, 15744, 16050, 16358, 16670, 16986, 17304, 17627, 17953,
     18282, 18615, 18951, 19291, 19634, 19981, 20332, 20686, 21043, 21405,
     21769, 22138, 22510, 22885, 23265, 23647, 24034, 24424, 24818, 25216,
     25617, 26022, 26430, 26843, 27259, 27679, 28102, 28530, 28961, 29395,
     29834, 30277, 30723, 31173, 31627, 32085, 32546, 33011, 33481, 33954,
     34431, 34912, 35397, 35885, 36378, 36875, 37375, 37879, 38388, 38900,
     39416, 39937, 40461, 40989, 41521, 42058, 42598, 43142, 43691, 44243,
     44799, 45360, 45924, 46493, 47066, 47643, 48223, 48809, 49398, 49991,
     50588, 51190, 51796, 52406, 53020, 53638, 54260, 54887, 55518, 56153,
     56792, 57435, 58083, 58735, 59391, 60051, 60716, 61385, 62058, 62736,
     63418, 64104, 64794, 65489, 66188, 66891, 67599, 68311, 69028, 69749,
     70474, 71203, 71937, 72676, 73419, 74166, 74917, 75673, 76434, 77199,
     77968, 78742, 79520, 80303, 81090, 81882, 82678, 83478, 84284, 85093,
     85907, 86726, 87549, 88377, 89210, 90046, 90888, 91734, 92585, 93440,
     94300, 95164, 96033, 96906, 97785, 98668, 99555, 100447, 101344, 102245,
     103151, 104062, 104978, 105898, 106822, 107752, 108686, 109625, 110568,
     111517, 112470, 113428, 114390, 115357, 116329, 117306, 118288, 119274,
     120265, 121261, 122262, 123267, 124278, 125293, 126313, 127337, 128367,
     129401, 130441, 131485, 132534, 133588, 134646, 135710, 136778, 137852,
     138930, 140013, 141101, 142194, 143292, 144395, 145503, 146616, 147733,
     148856, 149984, 151116, 152254, 153396, 154544, 155696, 156854, 158016,
     159184, 160356, 161534, 162716, 163904, 165097, 166294, 167497 >>


(***************************************************************************)
(* convert_colors.py                                                       *)
(* A hex code is a sequence of one-character strings.                      *)
(***************************************************************************)
UpperDigits ==
  <<"0", "1", "2", "3", "4", "5", "6", "7", "8", "9",
    "A", "B", "C", "D", "E", "F">>

LowerDigits ==
  <<"0", "1", "2", "3", "4", "5", "6", "7", "8", "9",
    "a", "b", "c", "d", "e", "f">>

IsHexChar(ch) == \E k \in 1..16 : UpperDigits[k] = ch \/ LowerDigits[k] = ch

HexVal(ch) ==
  (CHOOSE k \in 1..16 : UpperDigits[k] = ch \/ LowerDigits[k] = ch) - 1

\* str.strip(ch): drop every leading and trailing ch
RECURSIVE LStrip(_, _)
LStrip(s, ch) ==
  IF s # <<>> /\ Head(s) = ch THEN LStrip(Tail(s), ch) ELSE s

RECURSIVE RStrip(_, _)
RStrip(s, ch) ==
  IF s # <<>> /\ s[Len(s)] = ch THEN RStrip(SubSeq(s, 1, Len(s) - 1), ch)
  ELSE s

Strip(s, ch) == RStrip(LStrip(s, ch), ch)

\* Python slice s[a:b] for 0 <= a <= b
Slice(s, a, b) == SubSeq(s, a + 1, Min2(b, Len(s)))

RECURSIVE HexNum(_)
HexNum(s) ==
  IF s = <<>> THEN 0
  ELSE 16 * HexNum(SubSeq(s, 1, Len(s) - 1)) + HexVal(s[Len(s)])

\* int(s, 16) over the alphabet of digits, letters and '#': ValueError on an
\* empty string or a character that is no hexadecimal digit.
PyInt16(s) ==
  IF s = <<>> \/ \E k \in 1..Len(s) : ~IsHexChar(s[k])
  THEN [ok |-> FALSE, val |-> 0]
  ELSE [ok |-> TRUE, val |-> HexNum(s)]

hex_to_rgb(hex_code) ==
  LET s == Strip(hex_code, "#")
      r == PyInt16(Slice(s, 0, 2))
      g == PyInt16(Slice(s, 2, 4))
      b == PyInt16(Slice(s, 4, Len(s)))
  IN  IF r.ok /\ g.ok /\ b.ok
      THEN [ok |-> TRUE, rgb |-> <<r.val, g.val, b.val>>]
      ELSE [ok |-> FALSE, rgb |-> <<>>]

RECURSIVE HexDigits(_)
HexDigits(n) ==
  IF n < 16 THEN <<UpperDigits[n + 1]>>
  ELSE HexDigits(n \div 16) \o <<UpperDigits[(n % 16) + 1]>>

\* hex(c)[2:].upper() with no zfill(2)
NoZfill(c) == IF c < 0 THEN <<"X">> \o HexDigits(-c) ELSE HexDigits(c)

\* hex(c)[2:].upper().zfill(2); for c < 0, hex(c) is "-0x.." and the slice
\* keeps the "x"
HexChannel(c) ==
  IF c < 0 THEN <<"X">> \o HexDigits(-c)
  ELSE IF c < 16 THEN <<"0">> \o HexDigits(c)
  ELSE HexDigits(c)

rgb_to_hex(rgb) ==
  <<"#">> \o HexChannel(rgb[1]) \o HexChannel(rgb[2]) \o HexChannel(rgb[3])

\* <<hue, sat, val>> in units of 10^-6.  The code divides each channel by
\* 255 first; the factor cancels in sat and in delt_channel.
rgb_to_hsv(rgb) ==
  LET vmin == Min2(rgb[1], Min2(rgb[2], rgb[3]))
      vmax == Max2(rgb[1], Max2(rgb[2], rgb[3]))
      delt == vmax - vmin
      delt_channel(vchannel) ==
        MulDiv(vmax - vchannel, 1000000, 6 * delt) + 500000
      dr == delt_channel(rgb[1])
      dg == delt_channel(rgb[2])
      db == delt_channel(rgb[3])
      h0 == IF rgb[1] = vmax THEN db - dg
            ELSE IF rgb[2] = vmax THEN 333333 + dr - db
            ELSE 666667 + dg - dr
      h  == IF h0 < 0 THEN h0 + 1000000 ELSE h0 - 1000000
  IN  IF delt = 0 THEN <<0, 0, MulDiv(vmax, 1000000, 255)>>
      ELSE <<h, MulDiv(delt, 1000000, vmax), MulDiv(vmax, 1000000, 255)>>

\* channel 0..255 to linear light, units of 10^-3
_var_rgb(channel) ==
  IF channel * 100000 > 4045 * 255 THEN Pow24[channel + 1]
  ELSE MulDiv(channel, 1000000, 32946)

rgb_to_xyz(rgb) ==
  LET vr == _var_rgb(rgb[1])
      vg == _var_rgb(rgb[2])
      vb == _var_rgb(rgb[3])
  IN  << MulDiv(vr * 4124 + vg * 3576 + vb * 1805, 1, 10000),
         MulDiv(vr * 2126 + vg * 7152 + vb * 722, 1, 10000),
         MulDiv(vr * 193 + vg * 1192 + vb * 9505, 1, 10000) >>

\* the number of entries of InvPow24 that are <= var: the greatest k in
\* lo..hi with InvPow24[k] <= var, 0 if there is none
RECURSIVE CountLE(_, _, _)
CountLE(var, lo, hi) ==
  IF lo >= hi THEN lo
  ELSE LET mid == (lo + hi + 1) \div 2
       IN  IF InvPow24[mid] <= var THEN CountLE(var, mid, hi)
           ELSE CountLE(var, lo, mid - 1)

\* linear light var (units of 10^-5) to a channel
_var_rgb_prime(var) ==
  LET out == IF var * 100 > 31308
             THEN CountLE(var, 0, Len(InvPow24))
             ELSE MulDiv(var, 32946, 1000000)
  IN  Min2(out, 255)

xyz_to_rgb(xyz) ==
  LET vx == xyz[1]
      vy == xyz[2]
      vz == xyz[3]
      vr == MulDiv(vx, 32406, 10000) - MulDiv(vy, 15372, 10000)
              - MulDiv(vz, 4986, 10000)
      vg == MulDiv(vy, 18758, 10000) + MulDiv(vz, 415, 10000)
              - MulDiv(vx, 9689, 10000)
      vb == MulDiv(vx, 557, 10000) - MulDiv(vy, 2040, 10000)
              + MulDiv(vz, 10570, 10000)
  IN  <<_var_rgb_prime(vr), _var_rgb_prime(vg), _var_rgb_prime(vb)>>

\* x + 15y + 3z = 0 raises ZeroDivisionError, which the code catches.  With
\* y/100 <= 0.008856 the code's 116 * (7.787 * (y/100) + 16/116) - 16 is
\* 9.03292 * y.
\* <<cie_l, 13 * cie_l * vu, 13 * cie_l * vv>>, vu and vv in units of 10^-6
CieLuv(cie_l, vu, vv) ==
  <<cie_l, MulDiv(13 * cie_l, vu, 1000000), MulDiv(13 * cie_l, vv, 1000000)>>

\* cie_l from the cube root on both sides of 0.008856
CubeRootOnly(xyz) ==
  LET den == xyz[1] + 15 * xyz[2] + 3 * xyz[3]
  IN  CieLuv(MulDiv(116 * CubeRoot(xyz[2], 0, 10000), 1, 100) - 1600,
             IF den = 0 THEN 0 ELSE MulDiv(4 * xyz[1], 1000000, den),
             IF den = 0 THEN 0 ELSE MulDiv(9 * xyz[2], 1000000, den))

xyz_to_cieluv(xyz) ==
  LET x == xyz[1]
      y == xyz[2]
      z == xyz[3]
      den == x + 15 * y + 3 * z
  IN  CieLuv(IF y * 10 > 8856
             THEN MulDiv(116 * CubeRoot(y, 0, 10000), 1, 100) - 1600
             ELSE MulDiv(y, 903292, 1000000),
             IF den = 0 THEN 0 ELSE MulDiv(4 * x, 1000000, den),
             IF den = 0 THEN 0 ELSE MulDiv(9 * y, 1000000, den))

\* z = (9 * y - (15 * vv * y) - (vv * x)) / (3 * vv), or 0 when vv = 0
XyzOf(x, y, vv) ==
  <<x, y,
    IF vv = 0 THEN 0
    ELSE MulDiv(9 * y - MulDiv(15 * y + x, vv, 1000000), 1000000, 3 * vv)>>

\* x = -(9 * y * vu) / ((vu - 4) * vv - vu * vv), or 0 when vv = 0; the
\* divisor is -4 * vv
XyzFromY(y, vu, vv) ==
  XyzOf(IF vv = 0 THEN 0 ELSE MulDiv(9 * y, vu, 4 * vv), y, vv)

\* y = vy0 ** 3 * 100 on both sides of 0.008856
CubeOnly(l, vy0) == MulDiv(CubeDiv4(vy0), 1, 1000)

\* y = vy * 100 where vy is vy0 ** 3 if that exceeds 0.008856 and
\* (vy0 - 16/116) / 7.787 otherwise; vy0 = (l + 16) / 116 in units of 10^-4
YOf(l, vy0) ==
  IF CubeDiv4(vy0) \div 100 >= 8856
  THEN MulDiv(CubeDiv4(vy0), 1, 1000)
  ELSE MulDiv(l * 10, 100000, 903292)

cieluv_to_xyz(luv) ==
  LET l == luv[1]
      u == luv[2]
      v == luv[3]
  IN  XyzFromY(YOf(l, MulDiv((l + 1600) * 100, 1, 116)),
               IF l = 0 THEN 0 ELSE MulDiv(u, 1000000, 13 * l),
               IF l = 0 THEN 0 ELSE MulDiv(v, 1000000, 13 * l))

cieluv_to_hex(luv) == rgb_to_hex(xyz_to_rgb(cieluv_to_xyz(luv)))

\* one row of hex_to_everything's result: the columns merged one colour
\* space after the other
MergeColumns(hex, rgb, hsv, xyz, luv) ==
  [hex |-> hex, R |-> rgb[1], G |-> rgb[2], B |-> rgb[3],
   hue |-> hsv[1], sat |-> hsv[2], val |-> hsv[3],
   X |-> xyz[1], Y |-> xyz[2], Z |-> xyz[3],
   L |-> luv[1], U |-> luv[2], V |-> luv[3]]

RowFromXyz(hex, rgb, xyz) ==
  MergeColumns(hex, rgb, rgb_to_hsv(rgb), xyz, xyz_to_cieluv(xyz))

RowFromRgb(hex, rgb) == RowFromXyz(hex, rgb, rgb_to_xyz(rgb))

ColorRow(hex) == RowFromRgb(hex, hex_to_rgb(hex).rgb)

\* one row per entry of hex_series, under the same index
hex_to_everything(hex_series) ==
  [k \in DOMAIN hex_series |-> ColorRow(hex_series[k])]

(***************************************************************************)
(* make_theme.py                                                           *)
(***************************************************************************)
LuvOf(row) == <<row.L, row.U, row.V>>

\* a squared length as <<hi, lo>>, standing for hi * 10^6 + lo
Square(d) ==
  LET a == Abs(d) \div 1000
      b == Abs(d) % 1000
      m == 2 * a * b * 1000 + b * b
  IN  <<a * a + m \div 1000000, m % 1000000>>

Add2(p, q) ==
  <<p[1] + q[1] + (p[2] + q[2]) \div 1000000, (p[2] + q[2]) % 1000000>>

Less2(p, q) == p[1] < q[1] \/ (p[1] = q[1] /\ p[2] < q[2])

\* scipy's euclidean(u, v), squared: every use compares two distances, and
\* squaring keeps their order
euclidean(u, v) ==
  Add2(Square(u[1] - v[1]), Add2(Square(u[2] - v[2]), Square(u[3] - v[3])))

\* the reference colours, based on the xkcd colour survey
_ref ==
  hex_to_everything(
    [red     |-> <<"#", "E", "5", "0", "0", "0", "0">>,
     yellow  |-> <<"#", "F", "F", "F", "F", "1", "4">>,
     green   |-> <<"#", "1", "5", "B", "0", "1", "A">>,
     cyan    |-> <<"#", "1", "3", "E", "A", "C", "9">>,
     blue    |-> <<"#", "0", "3", "4", "3", "D", "F">>,
     magenta |-> <<"#", "F", "F", "0", "2", "8", "D">>,
     white   |-> <<"#", "F", "F", "F", "F", "F", "F">>,
     black   |-> <<"#", "0", "0", "0", "0", "0", "0">>])

\* _ref.index, in the order of the dict literal
RefNames ==
  <<"red", "yellow", "green", "cyan", "blue", "magenta", "white", "black">>

_ALL == 0

_BRIGHT == 1

_MUTED == 2

\* default of exclude_dist, 100.0, in units of 10^-2
ExcludeDist == 10000

\* _exclude without its filter: no row is excluded
ExcludeNothing(colors, subset, exclude, exclude_dist) == subset

\* rows of subset (index labels into colors) farther than exclude_dist from
\* exclude
_exclude(colors, subset, exclude, exclude_dist) ==
  LET far(i) == Less2(Square(exclude_dist),
                      euclidean(LuvOf(colors[i]), LuvOf(exclude)))
  IN  SelectSeq(subset, far)

\* the sequences that put row somewhere into sorted and keep the counts
\* non-increasing
InsertByCount(sorted, row) ==
  {SubSeq(sorted, 1, p) \o <<row>> \o SubSeq(sorted, p + 1, Len(sorted)) :
     p \in {q \in 0..Len(sorted) :
              /\ \A k \in 1..q : sorted[k].count >= row.count
              /\ \A k \in (q + 1)..Len(sorted) :
                   sorted[k].count <= row.count}}

\* no sort: the rows stay as the file has them
KeepOrder(rows) == {rows}

\* sort_values("count", ascending=False) with the default kind, quicksort,
\* which is not stable: every order of the rows with non-increasing counts
\* is an outcome, whatever the order of rows with equal count
RECURSIVE SortByCount(_)
SortByCount(rows) ==
  IF rows = <<>> THEN {<<>>}
  ELSE UNION {InsertByCount(sorted, rows[Len(rows)]) :
                sorted \in SortByCount(SubSeq(rows, 1, Len(rows) - 1))}

\* pd.merge(left, right, on "hex"): for every left row, in order, one row
\* per right row with the same hex
RECURSIVE MergeOnHex(_, _)
MergeOnHex(left, right) ==
  IF left = <<>> THEN <<>>
  ELSE LET l == Head(left)
           same(r) == r.hex = l.hex
           hit == SelectSeq(right, same)
       IN  [k \in 1..Len(hit) |->
              [count |-> l.count, hex |-> l.hex,
               R |-> hit[k].R, G |-> hit[k].G, B |-> hit[k].B,
               hue |-> hit[k].hue, sat |-> hit[k].sat, val |-> hit[k].val,
               X |-> hit[k].X, Y |-> hit[k].Y, Z |-> hit[k].Z,
               L |-> hit[k].L, U |-> hit[k].U, V |-> hit[k].V]]
           \o MergeOnHex(Tail(left), right)

\* Themer.__init__: the tables self.colors can be for the histogram hist,
\* one for each outcome of the sort
ThemerColors(hist) ==
  {MergeOnHex(sorted,
              hex_to_everything([k \in 1..Len(sorted) |-> sorted[k].hex])) :
     sorted \in SortByCount(hist)}

RECURSIVE InsertInt(_, _)
InsertInt(sorted, x) ==
  IF sorted = <<>> THEN <<x>>
  ELSE IF Head(sorted) <= x
       THEN <<Head(sorted)>> \o InsertInt(Tail(sorted), x)
       ELSE <<x>> \o sorted

RECURSIVE SortInts(_)
SortInts(xs) ==
  IF xs = <<>> THEN <<>> ELSE InsertInt(SortInts(Tail(xs)), Head(xs))

\* twice Series.quantile(0.5): pandas interpolates linearly between the two
\* middle values, so the median of an even number of values is their mean
Quantile2(xs) ==
  LET s == SortInts(xs)
      n == Len(s)
  IN  IF n % 2 = 1 THEN 2 * s[(n + 1) \div 2]
      ELSE s[n \div 2] + s[n \div 2 + 1]

\* _get_subset raises ValueError for any other bright_mode
ValidBrightMode(bright_mode) == bright_mode \in {_ALL, _BRIGHT, _MUTED}

\* _get_subset with >= for > in BRIGHT: the rows at the median are bright
SubsetFromMedian(colors, bright_mode) ==
  LET sat2 == Quantile2([k \in 1..Len(colors) |-> colors[k].sat])
      val2 == Quantile2([k \in 1..Len(colors) |-> colors[k].val])
      all == [k \in 1..Len(colors) |-> k]
      bright(i) == 2 * colors[i].sat >= sat2 /\ 2 * colors[i].val >= val2
      muted(i) == 2 * colors[i].sat < sat2 \/ 2 * colors[i].val < val2
  IN  IF bright_mode = _ALL THEN all
      ELSE IF bright_mode = _BRIGHT THEN SelectSeq(all, bright)
      ELSE SelectSeq(all, muted)

\* the index labels of the rows of the subset, in table order
_get_subset(colors, bright_mode) ==
  LET sat2 == Quantile2([k \in 1..Len(colors) |-> colors[k].sat])
      val2 == Quantile2([k \in 1..Len(colors) |-> colors[k].val])
      all == [k \in 1..Len(colors) |-> k]
      bright(i) == 2 * colors[i].sat > sat2 /\ 2 * colors[i].val > val2
      muted(i) == 2 * colors[i].sat < sat2 \/ 2 * colors[i].val < val2
  IN  IF bright_mode = _ALL THEN all
      ELSE IF bright_mode = _BRIGHT THEN SelectSeq(all, bright)
      ELSE SelectSeq(all, muted)

\* the labels of a subset, as a set
Labels(subset) == {subset[k] : k \in 1..Len(subset)}

\* Series.idxmin / idxmax of the series over the labels subset: the first
\* label whose value is least / greatest; values are pairs compared by Less2
IdxMin(subset, series) ==
  subset[CHOOSE k \in 1..Len(subset) :
           /\ \A j \in 1..Len(subset) :
                ~Less2(series[subset[j]], series[subset[k]])
           /\ \A j \in 1..(k - 1) :
                Less2(series[subset[k]], series[subset[j]])]

\* idxmin where idxmax is meant
LeastForGreatest(subset, series) == IdxMin(subset, series)

IdxMax(subset, series) ==
  subset[CHOOSE k \in 1..Len(subset) :
           /\ \A j \in 1..Len(subset) :
                ~Less2(series[subset[k]], series[subset[j]])
           /\ \A j \in 1..(k - 1) :
                Less2(series[subset[j]], series[subset[k]])]

NoRow == [hex |-> <<>>]

NoExclude == [hex |-> <<>>]

\* Closest without the exception: an empty subset yields the first row of
\* the table
ClosestOrFirst(colors, subset, luv, nearest) ==
  LET dist == [i \in Labels(subset) |-> euclidean(LuvOf(colors[i]), luv)]
  IN  [ok |-> TRUE, err |-> "",
       row |-> colors[IF subset = <<>> THEN 1
                      ELSE IF nearest THEN IdxMin(subset, dist)
                      ELSE IdxMax(subset, dist)]]

\* the row of subset nearest to luv, or farthest from it; argmin / argmax
\* of an empty sequence raises ValueError
Closest(colors, subset, luv, nearest) ==
  LET dist == [i \in Labels(subset) |-> euclidean(LuvOf(colors[i]), luv)]
  IN  IF subset = <<>>
      THEN [ok |-> FALSE, err |-> "ValueError", row |-> NoRow]
      ELSE [ok |-> TRUE, err |-> "",
            row |-> colors[IF nearest THEN IdxMin(subset, dist)
                           ELSE IdxMax(subset, dist)]]

_measure(colors, luv, bright_mode, nearest, exclude, exclude_dist) ==
  IF ~ValidBrightMode(bright_mode)
  THEN [ok |-> FALSE, err |-> "ValueError", row |-> NoRow]
  ELSE Closest(colors,
               IF exclude # NoExclude
               THEN _exclude(colors, _get_subset(colors, bright_mode),
                             exclude, exclude_dist)
               ELSE _get_subset(colors, bright_mode),
               luv, nearest)

\* a row of the theme table: its label and the columns that are read back
ThemeRow(name, row) ==
  [name |-> name, hex |-> row.hex, L |-> row.L, U |-> row.U, V |-> row.V]

\* (1 - p_mix) * base + p_mix * pure, p_mix in units of 10^-2
MixLuv(p_mix, base, pure) ==
  [k \in 1..3 |-> MulDiv((100 - p_mix) * base[k] + p_mix * pure[k], 1, 100)]

\* hex_to_everything(pd.Series([hex_code])).iloc[0], named ref; hex_to_rgb
\* raises ValueError on a code it cannot decode
MixedRow(ref, hex_code) ==
  IF ~hex_to_rgb(hex_code).ok
  THEN [ok |-> FALSE, err |-> "ValueError", row |-> NoRow]
  ELSE [ok |-> TRUE, err |-> "",
        row |-> ThemeRow(ref, hex_to_everything(<<hex_code>>)[1])]

\* base is the result of _measure
MixWith(p_mix, ref, base, pure) ==
  IF ~base.ok THEN [ok |-> FALSE, err |-> base.err, row |-> NoRow]
  ELSE MixedRow(ref, cieluv_to_hex(MixLuv(p_mix, LuvOf(base.row), pure)))

_get_mixed(colors, p_mix, ref, bright_mode) ==
  MixWith(p_mix, ref,
          _measure(colors, LuvOf(_ref[ref]), bright_mode, TRUE, NoExclude,
                   ExcludeDist),
          LuvOf(_ref[ref]))

HasRow(theme, name) == \E k \in 1..Len(theme) : theme[k].name = name

\* theme.loc[name]
Loc(theme, name) == theme[CHOOSE k \in 1..Len(theme) : theme[k].name = name]

\* _get_special without its except clauses: the KeyError of theme.loc
\* reaches the caller
UncaughtKeyError == "KeyError"

\* the ValueError raised from the KeyError of theme.loc: "Must calculate
\* 'bg' before 'accent'.", "Must calculate 'accent' and 'bg' before
\* 'secondary'."
SequencingError == "ValueError: Must calculate"

\* sum of column c (1 = L, 2 = U, 3 = V) over the first k rows
RECURSIVE ColumnSum(_, _, _)
ColumnSum(colors, k, c) ==
  IF k = 0 THEN 0 ELSE ColumnSum(colors, k - 1, c) + LuvOf(colors[k])[c]

\* colors[_LUV].mean()
ColumnMean(colors) ==
  [c \in 1..3 |-> MulDiv(ColumnSum(colors, Len(colors), c), 1, Len(colors))]

\* colors.loc[subset["sat"].idxmax()]; ValueError on an empty subset
MostSaturated(colors, subset, mode) ==
  LET sat == [i \in Labels(subset) |-> <<0, colors[i].sat>>]
  IN  IF subset = <<>>
      THEN [ok |-> FALSE, err |-> "ValueError", row |-> NoRow]
      ELSE [ok |-> TRUE, err |-> "",
            row |-> ThemeRow(mode, colors[IdxMax(subset, sat)])]

_get_special(colors, theme, mode) ==
  LET found(r) == [ok |-> TRUE, err |-> "", row |-> ThemeRow(mode, r)]
      failed(e) == [ok |-> FALSE, err |-> e, row |-> NoRow]
      of(m) == IF m.ok THEN found(m.row) ELSE failed(m.err)
  IN  IF mode = "common" \/ mode = "bg" THEN found(colors[1])
      ELSE IF mode = "mean"
      THEN of(_measure(colors, ColumnMean(colors), _ALL, TRUE,
                       NoExclude, ExcludeDist))
      ELSE IF mode = "fg"
      THEN of(_measure(colors, LuvOf(colors[1]), _MUTED, FALSE,
                       NoExclude, ExcludeDist))
      ELSE IF mode = "accent"
      THEN IF ~HasRow(theme, "bg") THEN failed(SequencingError)
           ELSE MostSaturated(colors,
                              _exclude(colors, _get_subset(colors, _BRIGHT),
                                       Loc(theme, "bg"), ExcludeDist),
                              mode)
      ELSE IF mode = "secondary"
      THEN IF ~HasRow(theme, "accent") \/ ~HasRow(theme, "bg")
           THEN failed(SequencingError)
           ELSE of(_measure(colors, LuvOf(Loc(theme, "accent")), _BRIGHT,
                            FALSE, Loc(theme, "bg"), ExcludeDist))
      ELSE failed("NotImplementedError")

(***************************************************************************)
(* Bounds and inputs                                                       *)
(***************************************************************************)
MaxRows == 4

MaxCount == 2

MaxAccess == 2

\* the hex codes a histogram row can carry, as extract_colors writes them
Universe ==
  << <<"#", "8", "0", "8", "0", "8", "0">>,
     <<"#", "F", "F", "0", "0", "0", "0">>,
     <<"#", "0", "0", "F", "F", "0", "0">>,
     <<"#", "E", "0", "2", "0", "2", "0">>,
     <<"#", "2", "0", "E", "0", "2", "0">> >>

\* p_mix in units of 10^-2
PMixSet == {0, 25}

\* the modes _get_special is called with on its own
SpecialModes == {"bg", "accent", "secondary", "other"}

\* the record of colour k of Universe, seen count[k] times
HistRow(count, k) == [count |-> count[k], hex |-> Universe[k]]

\* a histogram file as extract_colors writes it: one record for each colour
\* that count is defined for, the most common colour first; of the orders
\* it can give equally common colours, that of Universe
RECURSIVE HistFile(_, _)
HistFile(count, left) ==
  IF left = {} THEN <<>>
  ELSE LET first == CHOOSE k \in left :
                      \A j \in left :
                        \/ count[k] > count[j]
                        \/ count[k] = count[j] /\ k <= j
       IN  <<HistRow(count, first)>> \o HistFile(count, left \ {first})

\* histograms of 1..MaxRows colours seen 1..MaxCount times each
Histograms ==
  {HistFile(count, DOMAIN count) :
     count \in UNION {[picked -> 1..MaxCount] :
                        picked \in {s \in SUBSET (DOMAIN Universe) :
                                      Cardinality(s) \in 1..MaxRows}}}

\* a histogram of three colours, grey the most common, then pure red, then
\* pure green, with codes that carry no "#"
GreyRedGreen ==
  << [count |-> 100, hex |-> <<"8", "0", "8", "0", "8", "0">>],
     [count |-> 50,  hex |-> <<"F", "F", "0", "0", "0", "0">>],
     [count |-> 10,  hex |-> <<"0", "0", "F", "F", "0", "0">>] >>

\* a histogram of four colours whose codes carry no "#" either
PlainCodes ==
  << [count |-> 30, hex |-> <<"E", "0", "2", "0", "2", "0">>],
     [count |-> 20, hex |-> <<"F", "F", "0", "0", "0", "0">>],
     [count |-> 20, hex |-> <<"0", "0", "F", "F", "0", "0">>],
     [count |-> 10, hex |-> <<"8", "0", "8", "0", "8", "0">>] >>

\* a histogram file whose records are not in the order of their counts
OutOfOrder ==
  << [count |-> 1, hex |-> Universe[2]],
     [count |-> 2, hex |-> Universe[1]],
     [count |-> 1, hex |-> Universe[3]] >>

\* the histogram files a Themer is built from
HistogramFiles == Histograms \cup {GreyRedGreen, PlainCodes, OutOfOrder}

(***************************************************************************)
(* State                                                                   *)
(***************************************************************************)
VARIABLES
  colors,      \* Themer.colors
  p_mix,       \* Themer.p_mix
  _theme,      \* Themer._theme, a sequence of ThemeRow
  pc,          \* where the running call stands; "idle" between calls
  idx,         \* position of the running loop of the theme accessor
  caller,      \* what reads the theme: "property" (a read) or "save"
  outcome,     \* how the last access to Themer.theme ended
  file,        \* what the last call wrote to its file
  naccess,     \* number of calls made to theme or save
  ncomputed,   \* number of _get_mixed and _get_special calls made by theme
  special,     \* result of the running direct call of _get_special
  fn_in,       \* argument of a conversion function called on its own
  fn_out,      \* its result
  other        \* a second Themer, built from the same file with the same p_mix

vars ==
  <<colors, p_mix, _theme, pc, idx, caller, outcome, file, naccess,
    ncomputed, special, fn_in, fn_out, other>>

NoOutcome == [kind |-> "none", value |-> <<>>, err |-> ""]

NoFile == [fmt |-> "none", lines |-> <<>>]

NoSpecial == [mode |-> "none", err |-> "", hex |-> <<>>]

NotCalled == [done |-> FALSE, ok |-> FALSE, val |-> <<>>]

\* there is no second Themer
NoInstance ==
  [made |-> FALSE, _theme |-> <<>>, outcome |-> NoOutcome, naccess |-> 0,
   ncomputed |-> 0]

\* the loop with accent and bg exchanged
AccentBeforeBg == <<"common", "mean", "fg", "accent", "bg", "secondary">>

\* the loop of Themer.theme over the special colours
SpecialNames == <<"common", "mean", "fg", "bg", "accent", "secondary">>

\* every reference colour searched among the bright colours
AlwaysBright(ref) == _BRIGHT

\* white and black are searched among the muted colours
HueMode(ref) == IF ref \in {"white", "black"} THEN _MUTED ELSE _BRIGHT

\* a guard that never finds a theme: it is built on every access
AlwaysEmpty(theme) == TRUE

\* DataFrame.empty
ThemeEmpty(theme) == theme = <<>>

\* theme["hex"].drop(["common", "mean"]): the <<name, hex>> pairs of the
\* other rows; KeyError when a label to drop is not there
DropScratch(theme) ==
  LET keep(r) == r.name \notin {"common", "mean"}
      kept == SelectSeq(theme, keep)
  IN  IF HasRow(theme, "common") /\ HasRow(theme, "mean")
      THEN [ok |-> TRUE, value |-> [k \in 1..Len(kept) |->
                                      <<kept[k].name, kept[k].hex>>]]
      ELSE [ok |-> FALSE, value |-> <<>>]

\* Series.to_csv(index=False, header=False): one line per value
CsvLines(value) == [k \in 1..Len(value) |-> value[k][2]]

Init ==
  /\ \E hist \in HistogramFiles : colors \in ThemerColors(hist)
  /\ p_mix \in PMixSet
  /\ _theme = <<>>
  /\ pc = "idle"
  /\ idx = 0
  /\ caller = "none"
  /\ outcome = NoOutcome
  /\ file = NoFile
  /\ naccess = 0
  /\ ncomputed = 0
  /\ special = NoSpecial
  /\ fn_in = <<>>
  /\ fn_out = NotCalled
  /\ other = NoInstance

\* entry of the theme accessor: build the theme if the table is empty
Enter(by) ==
  /\ pc = "idle"
  /\ naccess < MaxAccess
  /\ naccess' = naccess + 1
  /\ caller' = by
  /\ file' = NoFile
  /\ IF ThemeEmpty(_theme)
     THEN pc' = "hues" /\ idx' = 1
     ELSE pc' = "return" /\ idx' = 0
  /\ UNCHANGED <<colors, p_mix, _theme, outcome, ncomputed, special,
                 fn_in, fn_out, other>>

\* a read of the property Themer.theme
ThemeGet == Enter("property")

\* Themer.save(fname): both of its branches begin by reading self.theme
Save == Enter("save")

\* an exception leaves the accessor, and save, at once
Raise(err) ==
  /\ pc' = "idle"
  /\ idx' = 0
  /\ caller' = "none"
  /\ outcome' = [kind |-> "raised", value |-> <<>>, err |-> err]

\* self._theme = self._theme.append(color), then the next turn of the loop
\* over names or, after its last turn, the statement at label after; an
\* exception in computing color ends the access
AppendColor(color, names, after) ==
  /\ IF color.ok
     THEN /\ _theme' = Append(_theme, color.row)
          /\ IF idx < Len(names)
             THEN pc' = pc /\ idx' = idx + 1
             ELSE pc' = after /\ idx' = IF after = "specials" THEN 1 ELSE 0
          /\ UNCHANGED <<caller, outcome>>
     ELSE Raise(color.err) /\ UNCHANGED _theme
  /\ ncomputed' = ncomputed + 1
  /\ UNCHANGED <<colors, p_mix, file, naccess, special, fn_in, fn_out,
                 other>>

\* one turn of the loop over _ref.index
HueStep ==
  /\ pc = "hues"
  /\ AppendColor(_get_mixed(colors, p_mix, RefNames[idx],
                            HueMode(RefNames[idx])),
                 RefNames, "specials")

\* one turn of the loop over the special colours
SpecialStep ==
  /\ pc = "specials"
  /\ AppendColor(_get_special(colors, _theme, SpecialNames[idx]),
                 SpecialNames, "return")

\* the return statement of the accessor
ThemeReturn ==
  /\ pc = "return"
  /\ LET res == DropScratch(_theme)
     IN  IF res.ok
         THEN /\ outcome' = [kind |-> "returned", value |-> res.value,
                             err |-> ""]
              /\ idx' = 0
              /\ IF caller = "property"
                 THEN pc' = "idle" /\ caller' = "none"
                 ELSE pc' = "write" /\ caller' = caller
         ELSE Raise("KeyError")
  /\ UNCHANGED <<colors, p_mix, _theme, file, naccess, ncomputed, special,
                 fn_in, fn_out, other>>

\* save writes the theme it got: to_json when fname ends with ".json",
\* to_csv when it does not
SaveWrite(fmt) ==
  /\ pc = "write"
  /\ file' = [fmt |-> fmt,
              lines |-> IF fmt = "json" THEN outcome.value
                        ELSE CsvLines(outcome.value)]
  /\ pc' = "idle"
  /\ caller' = "none"
  /\ UNCHANGED <<colors, p_mix, _theme, idx, outcome, naccess, ncomputed,
                 special, fn_in, fn_out, other>>

SpecialResult(mode, color) ==
  [mode |-> mode, err |-> color.err, hex |-> color.row.hex]

\* _get_special that keeps what _exclude leaves of the table around its
\* first row as the table
ExcludeInPlace(mode) ==
  /\ pc = "idle"
  /\ pc' = "special"
  /\ special' = SpecialResult(mode, _get_special(colors, _theme, mode))
  /\ colors' = LET kept == _exclude(colors, _get_subset(colors, _ALL),
                                   colors[1], ExcludeDist)
               IN  [k \in 1..Len(kept) |-> colors[kept[k]]]
  /\ UNCHANGED <<p_mix, _theme, idx, caller, outcome, file, naccess,
                 ncomputed, fn_in, fn_out, other>>

\* _get_special called on its own, between accesses
GetSpecial(mode) ==
  /\ pc = "idle"
  /\ pc' = "special"
  /\ special' = SpecialResult(mode, _get_special(colors, _theme, mode))
  /\ UNCHANGED <<colors, p_mix, _theme, idx, caller, outcome, file,
                 naccess, ncomputed, fn_in, fn_out, other>>

\* the caller has taken the result
SpecialDone ==
  /\ pc = "special"
  /\ pc' = "idle"
  /\ special' = NoSpecial
  /\ UNCHANGED <<colors, p_mix, _theme, idx, caller, outcome, file,
                 naccess, ncomputed, fn_in, fn_out, other>>

Next ==
  \/ ThemeGet
  \/ Save
  \/ HueStep
  \/ SpecialStep
  \/ ThemeReturn
  \/ \E fmt \in {"json", "text"} : SaveWrite(fmt)
  \/ \E mode \in SpecialModes : GetSpecial(mode)
  \/ SpecialDone

Spec == Init /\ [][Next]_vars

(***************************************************************************)
(* Conversion functions called on their own                                *)
(***************************************************************************)
MaxHexLen == 8

MaxXyzStep == 4

\* no Themer is at work; pc names the function that is called
NoThemer(fn) ==
  /\ colors = <<>>
  /\ p_mix = 0
  /\ _theme = <<>>
  /\ pc = fn
  /\ idx = 0
  /\ caller = "none"
  /\ outcome = NoOutcome
  /\ file = NoFile
  /\ naccess = 0
  /\ ncomputed = 0
  /\ special = NoSpecial
  /\ other = NoInstance

\* the function returns: with a value, or by raising
Return(ok, val) ==
  /\ ~fn_out.done
  /\ fn_out' = [done |-> TRUE, ok |-> ok, val |-> val]
  /\ UNCHANGED <<colors, p_mix, _theme, pc, idx, caller, outcome, file,
                 naccess, ncomputed, special, fn_in, other>>

\* strings of "#", a hexadecimal digit and a letter that is none
HexInputs ==
  UNION {[1..n -> {"#", "F", "G"}] : n \in 0..MaxHexLen}

InitHex == NoThemer("hex_to_rgb") /\ fn_in \in HexInputs /\ fn_out = NotCalled

CallHexToRgb ==
  /\ pc = "hex_to_rgb"
  /\ Return(hex_to_rgb(fn_in).ok, hex_to_rgb(fn_in).rgb)

NextHex == CallHexToRgb

SpecHex == InitHex /\ [][NextHex]_vars

\* X, Y, Z on a grid from 0 up, in units of 10^-3
XyzGrid == {25000 * k : k \in 0..MaxXyzStep}

\* what cieluv_to_xyz makes of the LUV mixes of _get_mixed
MixedXyz ==
  {cieluv_to_xyz(MixLuv(p, LuvOf(ColorRow(Universe[k])), LuvOf(_ref[ref]))) :
     p \in PMixSet, k \in DOMAIN Universe, ref \in DOMAIN _ref}

XyzInputs == (XyzGrid \X XyzGrid \X XyzGrid) \cup MixedXyz

InitXyz == NoThemer("xyz_to_rgb") /\ fn_in \in XyzInputs /\ fn_out = NotCalled

CallXyzToRgb ==
  /\ pc = "xyz_to_rgb"
  /\ Return(TRUE, xyz_to_rgb(fn_in))

NextXyz == CallXyzToRgb

SpecXyz == InitXyz /\ [][NextXyz]_vars

(***************************************************************************)
(* Properties                                                              *)
(***************************************************************************)
\* the names of the published theme
ThemeKeys ==
  {"red", "yellow", "green", "cyan", "blue", "magenta", "white", "black",
   "fg", "bg", "accent", "secondary"}

\* the names a returned mapping carries
KeysOf(value) == {value[k][1] : k \in 1..Len(value)}

\* the hex code the returned mapping gives to name
ValueOf(value, name) ==
  value[CHOOSE k \in 1..Len(value) : value[k][1] = name][2]

Hash(digits) == <<"#">> \o digits

\* the Themer was built from the histogram GreyRedGreen with p_mix = 0.0
IsGreyRedGreen ==
  /\ [k \in 1..Len(colors) |-> [count |-> colors[k].count,
                                hex |-> colors[k].hex]] = GreyRedGreen
  /\ p_mix = 0

\* row i of the table is farther than 100 from row j, in LUV
Far(i, j) ==
  Less2(<<100, 0>>, euclidean(LuvOf(colors[i]), LuvOf(colors[j])))

\* the labels of the BRIGHT rows farther than 100 from the most common row
BrightFarFromBg ==
  {i \in Labels(_get_subset(colors, _BRIGHT)) : Far(i, 1)}

\* the rows among which the theme colour name is searched
Candidates(name) ==
  IF name \in {"white", "black", "fg"}
  THEN Labels(_get_subset(colors, _MUTED))
  ELSE IF name \in {"accent", "secondary"} THEN BrightFarFromBg
  ELSE IF name \in {"common", "mean", "bg"} THEN 1..Len(colors)
  ELSE Labels(_get_subset(colors, _BRIGHT))

\* the name the running derivation computes next
Current == IF pc = "hues" THEN RefNames[idx] ELSE SpecialNames[idx]

\* C1: every value the accessor returns has exactly the 12 keys of the
\* published theme, none missing and none repeated
C1_TwelveKeys ==
  outcome.kind = "returned" =>
    KeysOf(outcome.value) = ThemeKeys /\ Len(outcome.value) = 12

C3_DistinctLines ==
  file.fmt = "text" =>
    \A i, j \in 1..Len(file.lines) :
      i # j => file.lines[i] # file.lines[j]

\* C4: once an access to the theme has returned, no step appends a row to
\* the theme table, runs a hue or special-colour computation, or changes
\* the mapping that accesses return
C4_BuiltOnce ==
  [][outcome.kind = "returned" =>
       /\ _theme' = _theme
       /\ ncomputed' = ncomputed
       /\ outcome' = outcome]_vars

\* a second access has returned the theme the first one built
C4_Witness ==
  /\ naccess = 2
  /\ pc = "idle"
  /\ outcome.kind = "returned"
  /\ Len(_theme) = 14
  /\ ncomputed = 14

\* C5: xyz_to_rgb returns three integers, each in 0..255
C5_InRange ==
  (pc = "xyz_to_rgb" /\ fn_out.done) =>
    \A k \in 1..3 : fn_out.val[k] \in 0..255

\* exactly six hexadecimal digits, with or without a leading "#"
WellFormedHex(s) ==
  LET d == IF s # <<>> /\ s[1] = "#" THEN Tail(s) ELSE s
  IN  Len(d) = 6 /\ \A k \in 1..6 : IsHexChar(d[k])

\* C6: hex_to_rgb raises on every string that is not exactly six
\* hexadecimal digits with an optional leading "#"
C6_RejectsIllFormed ==
  (pc = "hex_to_rgb" /\ fn_out.done /\ ~WellFormedHex(fn_in)) => ~fn_out.ok

\* the row of the table that the theme row name was copied from
RowOf(name) ==
  CHOOSE i \in 1..Len(colors) : colors[i].hex = Loc(_theme, name).hex

C8_EmptySubsetRaises ==
  /\ [](_theme # <<>> =>
          /\ Candidates(_theme[Len(_theme)].name) # {}
          /\ _theme[Len(_theme)].hex # <<>>)
  /\ [][\A k \in 1..Len(_theme) :
          Len(_theme') >= k /\ _theme'[k] = _theme[k]]_vars
  /\ [][(pc \in {"hues", "specials"} /\ Candidates(Current) = {}) =>
          /\ pc' = "idle"
          /\ outcome'.kind = "raised"
          /\ outcome'.err = "ValueError"
          /\ _theme' = _theme]_vars

\* an access has raised at accent: there are BRIGHT rows, all within 100 of
\* bg
C8_Witness ==
  /\ pc = "idle"
  /\ outcome.kind = "raised"
  /\ Len(_theme) = 12
  /\ _get_subset(colors, _BRIGHT) # <<>>
  /\ BrightFarFromBg = {}

\* C9: _get_special fails with the sequencing error, and returns no colour,
\* for accent when the theme table has no bg row and for secondary when it
\* has no accent row or no bg row
C9_SequencingError ==
  (/\ pc = "special"
   /\ \/ special.mode = "accent" /\ ~HasRow(_theme, "bg")
      \/ special.mode = "secondary" /\ ~HasRow(_theme, "accent")
      \/ special.mode = "secondary" /\ ~HasRow(_theme, "bg")) =>
    special.err = "ValueError: Must calculate" /\ special.hex = <<>>

\* secondary is asked for when the table has a bg row and no accent row
C9_Witness ==
  /\ pc = "special"
  /\ special.mode = "secondary"
  /\ HasRow(_theme, "bg")
  /\ ~HasRow(_theme, "accent")
  /\ special.hex = <<>>

\* C10: the accessor computes the special colours in the order common,
\* mean, fg, bg, accent, secondary: bg is in the table when accent is
\* computed, accent and bg when secondary is, and no access raises the
\* sequencing error
C10_SpecialOrder ==
  /\ (pc = "specials" /\ Current = "accent") => HasRow(_theme, "bg")
  /\ (pc = "specials" /\ Current = "secondary") =>
       HasRow(_theme, "accent") /\ HasRow(_theme, "bg")
  /\ outcome.kind = "raised" => outcome.err # "ValueError: Must calculate"
  /\ \A k \in 1..(Len(_theme) - Len(RefNames)) :
       _theme[Len(RefNames) + k].name =
         <<"common", "mean", "fg", "bg", "accent", "secondary">>[k]

\* the first access of a fresh instance is about to compute secondary
C10_Witness ==
  /\ naccess = 1
  /\ pc = "specials"
  /\ Current = "secondary"
  /\ outcome = NoOutcome

(***************************************************************************)
(* Two Themers built from one histogram file with one p_mix                *)
(***************************************************************************)
\* the tables of 1..MaxRows colours of Universe in every order: the
\* searches do not read the counts, so every colour is seen once and the
\* sort leaves any order
SearchTables ==
  UNION {ThemerColors(HistFile([k \in picked |-> 1], picked)) :
           picked \in {s \in SUBSET (DOMAIN Universe) :
                         Cardinality(s) \in 1..MaxRows}}

\* the second Themer after its construction
FreshInstance ==
  [made |-> TRUE, _theme |-> <<>>, outcome |-> NoOutcome, naccess |-> 0,
   ncomputed |-> 0]

\* Themer(fname, p_mix), twice
InitPair ==
  /\ colors \in SearchTables
  /\ p_mix \in PMixSet
  /\ _theme = <<>>
  /\ pc = "idle"
  /\ idx = 0
  /\ caller = "none"
  /\ outcome = NoOutcome
  /\ file = NoFile
  /\ naccess = 0
  /\ ncomputed = 0
  /\ special = NoSpecial
  /\ fn_in = <<>>
  /\ fn_out = NotCalled
  /\ other = FreshInstance

\* the program turns to its other Themer; calls do not overlap, so this
\* happens between calls only
Switch ==
  /\ pc = "idle"
  /\ other.made
  /\ _theme' = other._theme
  /\ outcome' = other.outcome
  /\ naccess' = other.naccess
  /\ ncomputed' = other.ncomputed
  /\ other' = [made |-> TRUE, _theme |-> _theme, outcome |-> outcome,
               naccess |-> naccess, ncomputed |-> ncomputed]
  /\ UNCHANGED <<colors, p_mix, pc, idx, caller, file, special, fn_in,
                 fn_out>>

NextPair ==
  \/ ThemeGet
  \/ HueStep
  \/ SpecialStep
  \/ ThemeReturn
  \/ Switch

SpecPair == InitPair /\ [][NextPair]_vars

(***************************************************************************)
(* Conversion functions of an RGB triple, called on their own              *)
(***************************************************************************)
MaxRgbStep == 8

\* channel values spread over 0..255, and the smallest ones, which take one
\* hexadecimal digit and lie on the linear part of the gamma curve
RgbGrid ==
  {(255 * k) \div MaxRgbStep : k \in 0..MaxRgbStep} \cup 1..MaxRgbStep

RgbInputs == RgbGrid \X RgbGrid \X RgbGrid

InitRgb ==
  /\ \E fn \in {"rgb_to_hsv", "hex_to_rgb(rgb_to_hex)", "cieluv_to_hex"} :
       NoThemer(fn)
  /\ fn_in \in RgbInputs
  /\ fn_out = NotCalled

CallRgbToHsv ==
  /\ pc = "rgb_to_hsv"
  /\ Return(TRUE, rgb_to_hsv(fn_in))

\* hex_to_rgb(rgb_to_hex(rgb))
CallHexOfRgb ==
  /\ pc = "hex_to_rgb(rgb_to_hex)"
  /\ Return(hex_to_rgb(rgb_to_hex(fn_in)).ok,
            hex_to_rgb(rgb_to_hex(fn_in)).rgb)

\* hex_to_rgb(cieluv_to_hex(xyz_to_cieluv(rgb_to_xyz(rgb))))
CallLuvOfRgb ==
  /\ pc = "cieluv_to_hex"
  /\ Return(hex_to_rgb(cieluv_to_hex(xyz_to_cieluv(rgb_to_xyz(fn_in)))).ok,
            hex_to_rgb(cieluv_to_hex(xyz_to_cieluv(rgb_to_xyz(fn_in)))).rgb)

NextRgb ==
  \/ CallRgbToHsv
  \/ CallHexOfRgb
  \/ CallLuvOfRgb

SpecRgb == InitRgb /\ [][NextRgb]_vars

(***************************************************************************)
(* xyz_to_cieluv and cieluv_to_xyz, called on their own                    *)
(***************************************************************************)
MaxLuvStep == 4

\* L from 0 to 100 and U, V from -100 to 100, in units of 10^-2
LGrid == {2500 * k : k \in 0..MaxLuvStep}

UvGrid == {2500 * k : k \in -MaxLuvStep..MaxLuvStep}

LuvInputs == LGrid \X UvGrid \X UvGrid

InitLuv ==
  /\ \/ NoThemer("xyz_to_cieluv") /\ fn_in \in XyzGrid \X XyzGrid \X XyzGrid
     \/ NoThemer("cieluv_to_xyz") /\ fn_in \in LuvInputs
  /\ fn_out = NotCalled

CallXyzToCieluv ==
  /\ pc = "xyz_to_cieluv"
  /\ Return(TRUE, xyz_to_cieluv(fn_in))

CallCieluvToXyz ==
  /\ pc = "cieluv_to_xyz"
  /\ Return(TRUE, cieluv_to_xyz(fn_in))

NextLuv ==
  \/ CallXyzToCieluv
  \/ CallCieluvToXyz

SpecLuv == InitLuv /\ [][NextLuv]_vars

(***************************************************************************)
(* Themer.__init__ on its own                                              *)
(***************************************************************************)
MaxBuildRows == 3

\* histogram files of 1..MaxBuildRows records with pairwise different hex
\* codes, the records in any order
BuildInputs ==
  UNION {{h \in [1..n -> [count : 1..MaxCount,
                          hex : {Universe[k] : k \in DOMAIN Universe}]] :
            \A i, j \in 1..n : i # j => h[i].hex # h[j].hex} :
         n \in 1..MaxBuildRows}

\* Themer(fname, p_mix) is called; fn_in is what the file fname holds
InitBuild ==
  /\ colors = <<>>
  /\ p_mix \in PMixSet
  /\ _theme = <<>>
  /\ pc = "__init__"
  /\ idx = 0
  /\ caller = "none"
  /\ outcome = NoOutcome
  /\ file = NoFile
  /\ naccess = 0
  /\ ncomputed = 0
  /\ special = NoSpecial
  /\ fn_in \in BuildInputs
  /\ fn_out = NotCalled
  /\ other = NoInstance

\* Themer.__init__
Build ==
  /\ pc = "__init__"
  /\ colors' \in ThemerColors(fn_in)
  /\ _theme' = <<>>
  /\ pc' = "idle"
  /\ UNCHANGED <<p_mix, idx, caller, outcome, file, naccess, ncomputed,
                 special, fn_in, fn_out, other>>

NextBuild == Build

SpecBuild == InitBuild /\ [][NextBuild]_vars

(***************************************************************************)
(* _get_subset and _measure, called on their own                           *)
(***************************************************************************)
\* a point of LUV space at one distance from the rows of #FF0000 and
\* #E02020
Equidistant == <<5042, 29012, 34301>>

\* the targets of a search: a reference colour, the first row, or the point
\* between two rows
Targets(table) ==
  {LuvOf(_ref[k]) : k \in DOMAIN _ref}
    \cup {LuvOf(table[1]), Equidistant}

\* the keyword arguments of _measure; exclude is the first row or is not
\* given, exclude_dist is its default or 0
MeasureInputs(table) ==
  [luv : Targets(table),
   bright_mode : {_ALL, _BRIGHT, _MUTED},
   nearest : BOOLEAN,
   exclude : {NoExclude, table[1]},
   exclude_dist : {0, ExcludeDist}]

InitSearch ==
  /\ colors \in SearchTables
  /\ p_mix = 0
  /\ _theme = <<>>
  /\ \/ pc = "_get_subset" /\ fn_in \in {_ALL, _BRIGHT, _MUTED}
     \/ pc = "_measure" /\ fn_in \in MeasureInputs(colors)
  /\ idx = 0
  /\ caller = "none"
  /\ outcome = NoOutcome
  /\ file = NoFile
  /\ naccess = 0
  /\ ncomputed = 0
  /\ special = NoSpecial
  /\ fn_out = NotCalled
  /\ other = NoInstance

\* self._get_subset(bright_mode): the index labels of the rows returned
CallGetSubset ==
  /\ pc = "_get_subset"
  /\ Return(TRUE, _get_subset(colors, fn_in))

MeasureOf(table, kwargs) ==
  _measure(table, kwargs.luv, kwargs.bright_mode, kwargs.nearest,
           kwargs.exclude, kwargs.exclude_dist)

\* self._measure(luv, **kwargs): the row returned, or the exception
CallMeasure ==
  /\ pc = "_measure"
  /\ Return(MeasureOf(colors, fn_in).ok, MeasureOf(colors, fn_in).row)

NextSearch ==
  \/ CallGetSubset
  \/ CallMeasure

SpecSearch == InitSearch /\ [][NextSearch]_vars

Canonical(code) ==
  /\ Len(code) = 7
  /\ code[1] = "#"
  /\ \A k \in 2..7 : \E n \in 1..16 : UpperDigits[n] = code[k]

\* C12: every value of a returned theme is "#" followed by six upper-case
\* hexadecimal digits
C12_CanonicalValues ==
  outcome.kind = "returned" =>
    \A k \in 1..Len(outcome.value) : Canonical(outcome.value[k][2])

\* C13: rgb_to_hsv returns a hue in [0,1) and a saturation and a value in
\* [0,1]  (units of 10^-6)
C13_HsvRange ==
  (pc = "rgb_to_hsv" /\ fn_out.done) =>
    /\ 0 <= fn_out.val[1] /\ fn_out.val[1] < 1000000
    /\ 0 <= fn_out.val[2] /\ fn_out.val[2] <= 1000000
    /\ 0 <= fn_out.val[3] /\ fn_out.val[3] <= 1000000

\* C14: hex_to_rgb(rgb_to_hex(rgb)) is rgb
C14_HexRoundTrip ==
  (pc = "hex_to_rgb(rgb_to_hex)" /\ fn_out.done) =>
    fn_out.ok /\ fn_out.val = fn_in

\* the round trip is made for a triple with a channel below 16 and one
\* above
C14_Witness ==
  /\ pc = "hex_to_rgb(rgb_to_hex)"
  /\ fn_out.done
  /\ fn_in[1] = 0
  /\ fn_in[2] \in 1..15
  /\ fn_in[3] = 255

\* C15: cieluv_to_hex(xyz_to_cieluv(rgb_to_xyz(rgb))) decodes to a triple
\* within 1 of rgb in every channel
C15_LuvRoundTrip ==
  (pc = "cieluv_to_hex" /\ fn_out.done) =>
    /\ fn_out.ok
    /\ \A k \in 1..3 : fn_out.val[k] - fn_in[k] \in -1..1

\* the round trip is made for a dark triple, on the linear part of the
\* gamma curve, with channels that differ
C15_Witness ==
  /\ pc = "cieluv_to_hex"
  /\ fn_out.done
  /\ fn_in[1] \in 1..10
  /\ fn_in[2] = 0
  /\ fn_in[3] > 200

\* C16: xyz_to_cieluv of (0,0,0) returns (0,0,0), and so does cieluv_to_xyz
\* of every triple with L = 0; neither raises
C16_Black ==
  /\ (pc = "xyz_to_cieluv" /\ fn_out.done /\ fn_in = <<0, 0, 0>>) =>
       fn_out.ok /\ fn_out.val = <<0, 0, 0>>
  /\ (pc = "cieluv_to_xyz" /\ fn_out.done /\ fn_in[1] = 0) =>
       fn_out.ok /\ fn_out.val = <<0, 0, 0>>

\* cieluv_to_xyz has returned for L = 0 with U and V that are not 0
C16_Witness ==
  /\ pc = "cieluv_to_xyz"
  /\ fn_out.done
  /\ fn_in[1] = 0
  /\ fn_in[2] < 0
  /\ fn_in[3] > 0

\* the place of the record with code hex in the histogram hist
PlaceOf(hist, hex) == CHOOSE k \in 1..Len(hist) : hist[k].hex = hex

\* the table has one row per record of the histogram, counts non-increasing
CountOrder(table, hist) ==
  /\ Len(table) = Len(hist)
  /\ \A k \in 1..Len(hist) :
       \E i \in 1..Len(table) :
         table[i].hex = hist[k].hex /\ table[i].count = hist[k].count
  /\ \A i \in 1..(Len(table) - 1) : table[i].count >= table[i + 1].count

\* rows of the table with equal count stand as their records stand in the
\* histogram
TiesKept(table, hist) ==
  \A i, j \in 1..Len(table) :
    (i < j /\ table[i].count = table[j].count) =>
      PlaceOf(hist, table[i].hex) < PlaceOf(hist, table[j].hex)

\* C17: after construction the table has one row per record of the
\* histogram, in non-increasing order of count, and rows with equal count
\* keep the order of their records
C17_StableSort ==
  (pc = "idle" /\ fn_in # <<>>) =>
    CountOrder(colors, fn_in) /\ TiesKept(colors, fn_in)

\* the part of C17 that the sort gives whatever it does with ties
C17_CountOrder == (pc = "idle" /\ fn_in # <<>>) => CountOrder(colors, fn_in)

\* C18: no step after construction (an access to the theme that returns or
\* raises, a save, a call of _get_special with the searches it makes)
\* changes the palette table; the reference table _ref is a constant
C18_TableUnchanged == [][colors' = colors]_vars

\* an access has raised and left rows in the theme table, and a second
\* access has been made
C18_Witness ==
  /\ pc = "idle"
  /\ outcome.kind = "raised"
  /\ _theme # <<>>
  /\ naccess = 2

\* the k-th smallest value of the column col of the table
OrderStat(table, col(_), k) ==
  CHOOSE v \in {col(table[i]) : i \in 1..Len(table)} :
    /\ Cardinality({i \in 1..Len(table) : col(table[i]) < v}) < k
    /\ Cardinality({i \in 1..Len(table) : col(table[i]) <= v}) >= k

\* twice the median of the column: the middle value, or the mean of the two
\* middle values
Median2(table, col(_)) ==
  IF Len(table) % 2 = 1
  THEN 2 * OrderStat(table, col, (Len(table) + 1) \div 2)
  ELSE OrderStat(table, col, Len(table) \div 2)
         + OrderStat(table, col, Len(table) \div 2 + 1)

SatOf(row) == row.sat

ValOf(row) == row.val

\* the rows above both medians
BrightRows(table) ==
  {i \in 1..Len(table) :
     /\ 2 * table[i].sat > Median2(table, SatOf)
     /\ 2 * table[i].val > Median2(table, ValOf)}

\* the rows below one of the medians
MutedRows(table) ==
  {i \in 1..Len(table) :
     \/ 2 * table[i].sat < Median2(table, SatOf)
     \/ 2 * table[i].val < Median2(table, ValOf)}

\* the labels are those of rows, each once, in table order
InTableOrder(subset) ==
  /\ \A k \in 1..Len(subset) : subset[k] \in 1..Len(colors)
  /\ \A k \in 1..(Len(subset) - 1) : subset[k] < subset[k + 1]

Searched(table, kwargs) ==
  {i \in Labels(_get_subset(table, kwargs.bright_mode)) :
     \/ kwargs.exclude = NoExclude
     \/ Less2(Square(kwargs.exclude_dist),
              euclidean(LuvOf(table[i]), LuvOf(kwargs.exclude)))}

\* row i is at least as good as row j: as near to the target, or as far
Beats(table, kwargs, i, j) ==
  IF kwargs.nearest
  THEN ~Less2(euclidean(LuvOf(table[j]), kwargs.luv),
              euclidean(LuvOf(table[i]), kwargs.luv))
  ELSE ~Less2(euclidean(LuvOf(table[i]), kwargs.luv),
              euclidean(LuvOf(table[j]), kwargs.luv))

\* C20: _measure returns a row of the subset, among those farther than
\* exclude_dist from exclude when exclude is given, that is nearest to the
\* target (farthest when nearest is False), and of the rows at that distance
\* the first in table order; with no such row it raises
C20_Measure ==
  (pc = "_measure" /\ fn_out.done) =>
    IF Searched(colors, fn_in) = {} THEN ~fn_out.ok
    ELSE /\ fn_out.ok
         /\ \E i \in Searched(colors, fn_in) :
              /\ colors[i] = fn_out.val
              /\ \A j \in Searched(colors, fn_in) :
                   /\ Beats(colors, fn_in, i, j)
                   /\ j < i => ~Beats(colors, fn_in, j, i)
         /\ fn_in.exclude # NoExclude =>
              Less2(Square(fn_in.exclude_dist),
                    euclidean(LuvOf(fn_out.val), LuvOf(fn_in.exclude)))

\* the rows within exclude_dist of exclude were taken away, two of the rows
\* left are equally good, no row is better, and the first of the two has
\* been returned
C20_Witness ==
  /\ pc = "_measure"
  /\ fn_out.done
  /\ fn_out.ok
  /\ fn_in.exclude # NoExclude
  /\ fn_in.exclude_dist = ExcludeDist
  /\ Searched(colors, fn_in)
       # Labels(_get_subset(colors, fn_in.bright_mode))
  /\ \E i, j \in Searched(colors, fn_in) :
       /\ i < j
       /\ colors[i] = fn_out.val
       /\ Beats(colors, fn_in, j, i)

\* row i is a row of the candidates of name nearest to the pure colour
NearestTo(name, i) ==
  /\ i \in Candidates(name)
  /\ \A j \in Candidates(name) :
       ~Less2(euclidean(LuvOf(colors[j]), LuvOf(_ref[name])),
              euclidean(LuvOf(colors[i]), LuvOf(_ref[name])))

\* hex is the code of the mix of a nearest row with the pure colour name
MixOfNearest(name, hex) ==
  \E i \in 1..Len(colors) :
    /\ NearestTo(name, i)
    /\ hex = cieluv_to_hex(MixLuv(p_mix, LuvOf(colors[i]),
                                  LuvOf(_ref[name])))

\* the running derivation has just appended the row of a reference colour
JustMixed ==
  /\ pc \in {"hues", "specials"}
  /\ _theme # <<>>
  /\ _theme[Len(_theme)].name \in DOMAIN _ref

\* C21: the entry of each reference colour is cieluv_to_hex of
\* (1 - p_mix) * matched + p_mix * pure, matched a row nearest to pure
\* among the MUTED rows for white and black and among the BRIGHT rows for
\* the other six: the row is so when it is appended, whatever rows are
\* there already, no step changes a row that is there, and the mapping
\* returned carries the codes of the rows
C21_MixedHues ==
  /\ [](JustMixed =>
          MixOfNearest(_theme[Len(_theme)].name, _theme[Len(_theme)].hex))
  /\ [](\A k \in 1..Len(_theme) :
          k <= Len(RefNames) => _theme[k].name = RefNames[k])
  /\ [](outcome.kind = "returned" =>
          \A k \in 1..Len(outcome.value) :
            outcome.value[k][1] \in DOMAIN _ref =>
              outcome.value[k][2] = Loc(_theme, outcome.value[k][1]).hex)
  /\ [][\A k \in 1..Len(_theme) :
          Len(_theme') >= k /\ _theme'[k] = _theme[k]]_vars

\* the derivation has succeeded with p_mix 0.25, and white and black are
\* mixed from rows other than the one red is mixed from
C21_Witness ==
  /\ Len(_theme) = 14
  /\ p_mix = 25
  /\ outcome.kind = "returned"
  /\ \E i \in 1..Len(colors) :
       /\ NearestTo("white", i)
       /\ ~NearestTo("red", i)

\* C22: bg is the code of the first row of the table, a row whose count is
\* the greatest of the histogram
C22_BgMostCommon ==
  /\ HasRow(_theme, "bg") => Loc(_theme, "bg").hex = colors[1].hex
  /\ (outcome.kind = "returned" /\ "bg" \in KeysOf(outcome.value)) =>
       ValueOf(outcome.value, "bg") = colors[1].hex
  /\ \A j \in 1..Len(colors) : colors[j].count <= colors[1].count

\* the derivation has succeeded for a table in which a second colour is as
\* common as the first
C22_Witness ==
  /\ Len(_theme) = 14
  /\ outcome.kind = "returned"
  /\ Len(outcome.value) = 12
  /\ \E j \in 2..Len(colors) : colors[j].count = colors[1].count

\* name was copied from a row of the set rows that is farthest from the
\* point luv among them
FarthestIn(rows, name, luv) ==
  \E i \in rows :
    /\ Loc(_theme, name).hex = colors[i].hex
    /\ \A j \in rows :
         ~Less2(euclidean(LuvOf(colors[i]), luv),
                euclidean(LuvOf(colors[j]), luv))

\* name was copied from a row of the candidates of name that is farthest
\* from the point luv
FarthestFrom(name, luv) == FarthestIn(Candidates(name), name, luv)

\* every candidate of name is at the point luv
AllAt(name, luv) ==
  \A j \in Candidates(name) : LuvOf(colors[j]) = luv

\* C23: fg is the code of a MUTED row whose distance to the first row is
\* greatest among the MUTED rows, and fg is bg only when every MUTED row
\* has the LUV coordinates of the first row
C23_FgFarthest ==
  HasRow(_theme, "fg") =>
    /\ FarthestFrom("fg", LuvOf(colors[1]))
    /\ (outcome.kind = "returned" /\ "fg" \in KeysOf(outcome.value)) =>
         ValueOf(outcome.value, "fg") = Loc(_theme, "fg").hex
    /\ Loc(_theme, "fg").hex = colors[1].hex =>
         AllAt("fg", LuvOf(colors[1]))

\* the derivation has succeeded, the first row is MUTED, and fg is another
\* row
C23_Witness ==
  /\ Len(_theme) = 14
  /\ outcome.kind = "returned"
  /\ 1 \in Candidates("fg")
  /\ Loc(_theme, "fg").hex # colors[1].hex

\* the derivation has succeeded with fg equal to bg
C23_FgIsBg ==
  /\ Len(_theme) = 14
  /\ Loc(_theme, "fg").hex = colors[1].hex

\* C24: secondary is the code of a BRIGHT row farther than 100 from bg
\* whose distance to accent is greatest among such rows, and secondary is
\* accent only when every such row has the LUV coordinates of accent
C24_SecondaryFarthest ==
  HasRow(_theme, "secondary") =>
    /\ FarthestFrom("secondary", LuvOf(Loc(_theme, "accent")))
    /\ (outcome.kind = "returned"
          /\ "secondary" \in KeysOf(outcome.value)) =>
         ValueOf(outcome.value, "secondary") = Loc(_theme, "secondary").hex
    /\ Loc(_theme, "secondary").hex = Loc(_theme, "accent").hex =>
         AllAt("secondary", LuvOf(Loc(_theme, "accent")))

\* the derivation has succeeded with two BRIGHT rows farther than 100 from
\* bg, and secondary is the other one than accent
C24_Witness ==
  /\ Len(_theme) = 14
  /\ outcome.kind = "returned"
  /\ Cardinality(BrightFarFromBg) = 2
  /\ Loc(_theme, "secondary").hex # Loc(_theme, "accent").hex

\* the derivation has succeeded with secondary equal to accent: of two
\* BRIGHT rows one is within 100 of bg
C24_SecondaryIsAccent ==
  /\ Len(_theme) = 14
  /\ Cardinality(Labels(_get_subset(colors, _BRIGHT))) = 2
  /\ Cardinality(BrightFarFromBg) = 1
  /\ Loc(_theme, "secondary").hex = Loc(_theme, "accent").hex

\* C25: an access that raises leaves the theme table empty, and every
\* later access of the instance ends as it did, with the same error
C25_NoPartialTheme ==
  /\ []((pc = "idle" /\ outcome.kind = "raised") => _theme = <<>>)
  /\ [][outcome.kind = "raised" => outcome' = outcome]_vars

\* after an access that raised, the next one has returned a mapping
C25_PartialReturned ==
  /\ pc = "idle"
  /\ naccess = 2
  /\ ncomputed < 14
  /\ outcome.kind = "returned"

\* after an access that raised ValueError, the next one has raised KeyError
C25_OtherError ==
  /\ pc = "idle"
  /\ naccess = 2
  /\ _theme # <<>>
  /\ outcome.kind = "raised"
  /\ outcome.err = "KeyError"
====
